---- MODULE Spec2Model ----
(***************************************************************************)
(* Model of src/withData.js: the withData/withApollo higher-order          *)
(* component.  The state is the module-level client handle, the clients    *)
(* and caches created so far, the decorated component, the rendered        *)
(* WithApollo instances (with their useMemo slot) and the invocations of   *)
(* WithApollo.getServerSideProps, each cut at its await points.            *)
(***************************************************************************)
EXTENDS Integers, Sequences, FiniteSets, TLC

\* ---------------------------------------------------------------- bounds
MaxInv == 1       \* invocations of WithApollo.getServerSideProps
MaxInst == 1      \* rendered WithApollo instances

\* ---------------------------------------------------------------- values
NoClient == 0                 \* null / undefined client (falsy)
ExtClient == 0 - 1            \* a client built by the caller, not by this module
SharedCache == 0              \* the cache object an apolloConfig carries in its `cache` key
ExtCache == 0 - 1             \* the cache of ExtClient

\* cache contents (what cache.extract() returns) are sets of the normalized
\* entries "a" and "b"
Fetched == {"a"}              \* entries the queries of a data-fetch pass may write

\* a JavaScript value passed as initialState / apolloState
Undefined == [tag |-> "undefined", data |-> {}]
Null == [tag |-> "null", data |-> {}]
Obj(s) == [tag |-> "object", data |-> s]

\* page properties: an object from keys to values (every value a set of strings);
\* PagePropsSet is what a wrapped getServerSideProps may return: properties that carry
\* an apolloState key of their own (a page without the hook has NoProps, no such key)
NoProps == [k \in {} |-> {}]
PagePropsSet ==
    { [k \in {"title", "apolloState"} |-> IF k = "title" THEN {"t"} ELSE {"stale"}] }

\* apolloConfig objects: may carry createCache and/or their own cache
ObjConfigs == [fn : {FALSE}, createCache : BOOLEAN, cache : BOOLEAN]
\* apolloConfig given as a function of the context, returning one of ObjConfigs
FnConfig == [fn |-> TRUE, createCache |-> FALSE, cache |-> FALSE]
PlainConfig == [fn |-> FALSE, createCache |-> FALSE, cache |-> FALSE]
\* the configurations given to the factory (line 12): an object, or a function
\* whose result may be any object, call by call
Configs == {PlainConfig, FnConfig}
SeedData == {"a"}             \* contents of a cache returned by a custom createCache

SsrOptions == {"omitted", "true", "false"}

\* context.res when the hook looks at it: absent, not finished, or finished
Responses == {"none", "open", "finished"}

VARIABLES
    runtime,      \* "server" | "browser": typeof window === 'undefined' or not
    apolloClient, \* the module-level handle (line 8)
    cacheOf,      \* client -> its cache object
    data,         \* cache object -> its contents
    initLog,      \* the calls of initApolloClient so far
    inst,         \* WithApollo instances: mounted or not, and the useMemo slot
    render,       \* the latest render of WithApollo: its props and what it produced
    inv           \* invocations of WithApollo.getServerSideProps

vars == <<runtime, apolloClient, cacheOf, data, initLog, inst, render, inv>>

\* ------------------------------------------------------- the client library
\* line 10: createDefaultCache, or the configuration's createCache
CreateCache(cfg) == IF cfg.createCache THEN SeedData ELSE {}

\* `initialState = {}`: a default parameter replaces undefined only
DefaultParam(x) == IF x = Undefined THEN Obj({}) ELSE x

\* `initialState || {}`: null and undefined are falsy
OrEmpty(x) == IF x.tag = "object" THEN x ELSE Obj({})

\* cache.restore(snapshot): the cache's contents are replaced by the snapshot
Restore(contents, snapshot) == snapshot.data

\* cache.extract(): the contents of the cache
Extract(contents) == contents

CacheOf(c) == IF c = ExtClient THEN ExtCache ELSE cacheOf[c]

nextId == Len(cacheOf) + 1

\* createApolloClient with line 136 reduced to `cache: createCache()`
createApolloClient_NoRestore(cfg, initialState) ==
    [ client |-> nextId,
      cache |-> IF cfg.cache THEN SharedCache ELSE nextId,
      data |-> CreateCache(cfg) ]

\* lines 131-143: the client built for `cfg` and `initialState`; a `cache` key of
\* the configuration, spread after the restored cache, replaces it
createApolloClient(cfg, initialState) ==
    LET restored == Restore(CreateCache(cfg), OrEmpty(DefaultParam(initialState)))
    IN  [ client |-> nextId,
          cache |-> IF cfg.cache THEN SharedCache ELSE nextId,
          data |-> restored ]

\* initApolloClient without the server branch of lines 115-117
initApolloClient_NoServerBranch(cfg, initialState) ==
    LET made == createApolloClient(cfg, DefaultParam(initialState))
    IN  IF apolloClient = NoClient
        THEN [created |-> TRUE, handle |-> made.client, new |-> made, client |-> made.client]
        ELSE [created |-> FALSE, handle |-> apolloClient, new |-> made, client |-> apolloClient]

\* initApolloClient without the `if (!apolloClient)` test of line 120
initApolloClient_NoReuse(cfg, initialState) ==
    LET made == createApolloClient(cfg, DefaultParam(initialState))
    IN  IF runtime = "server"
        THEN [created |-> TRUE, handle |-> apolloClient, new |-> made, client |-> made.client]
        ELSE [created |-> TRUE, handle |-> made.client, new |-> made, client |-> made.client]

\* lines 109-125, after apolloConfig has been resolved to the object `cfg`
initApolloClient(cfg, initialState) ==
    LET st == DefaultParam(initialState)
        made == createApolloClient(cfg, st)
    IN  IF runtime = "server"
        THEN [created |-> TRUE, handle |-> apolloClient, new |-> made, client |-> made.client]
        ELSE IF apolloClient = NoClient
             THEN [created |-> TRUE, handle |-> made.client, new |-> made, client |-> made.client]
             ELSE [created |-> FALSE, handle |-> apolloClient, new |-> made, client |-> apolloClient]

\* lines 110-112: isFunction(apolloConfig) ? apolloConfig(context) : apolloConfig
ResolveConfig(config) == IF config.fn THEN ObjConfigs ELSE {config}

\* the effect of one call of initApolloClient on the module's state
CallInit(cfg, initialState) ==
    LET r == initApolloClient(cfg, initialState)
    IN  /\ apolloClient' = r.handle
        /\ cacheOf' = IF r.created THEN Append(cacheOf, r.new.cache) ELSE cacheOf
        /\ data' = IF r.created /\ r.new.cache # SharedCache
                   THEN (r.new.cache :> r.new.data) @@ data
                   ELSE data
        /\ initLog' = Append(initLog,
               [client |-> r.client, created |-> r.created])

\* ------------------------------------------------------------ the decorator
\* line 13: `{ ssr = true } = {}`
SsrOf(opts) == opts # "false"

\* withData with `ssr && PageComponent.getServerSideProps` at line 38
withData_And(config, pageHasHook, opts) ==
    [ config |-> config,
      ssr |-> SsrOf(opts),
      opts |-> opts,
      hasHook |-> pageHasHook,
      defined |-> (SsrOf(opts) /\ pageHasHook) ]

\* lines 13-100: the decorated component for a page with or without its own
\* getServerSideProps; `defined` says whether WithApollo.getServerSideProps exists
withData(config, pageHasHook, opts) ==
    [ config |-> config,
      ssr |-> SsrOf(opts),
      opts |-> opts,
      hasHook |-> pageHasHook,
      defined |-> (SsrOf(opts) \/ pageHasHook) ]

\* every component the factory and the decorator can produce
Decorated ==
    { withData(config, h, o) : config \in Configs, h \in BOOLEAN, o \in SsrOptions }

\* ------------------------------------------------------- WithApollo (render)
NoRender ==
    [ first |-> FALSE,
      props |-> [apolloClient |-> NoClient, apolloState |-> Undefined, rest |-> {}],
      client |-> NoClient, forwarded |-> {} ]

\* JavaScript runs one task to completion: nothing else runs between a render and
\* React committing its output, nor between the hook's return and the continuation
\* that awaits its promise
Quiet ==
    /\ render = NoRender
    /\ \A i \in 1..MaxInv : inv[i].pc \notin {"returned", "rejected"}

\* the props a render may receive: any snapshot, any other props, and as pre-built
\* client none, a client of the caller, or the client of a running data-fetch pass
PropsSet ==
    [ apolloClient : {NoClient, ExtClient}
                     \cup {inv[i].treeClient : i \in {k \in 1..MaxInv : inv[k].pc = "gdft"}},
      apolloState : {Undefined, Obj({"b"})},
      rest : {{"title"}} ]

KeysOf(p) ==
    p.rest \cup (IF p.apolloClient # NoClient THEN {"apolloClient"} ELSE {})
           \cup (IF p.apolloState # Undefined THEN {"apolloState"} ELSE {})

\* line 14: ({ apolloClient, apolloState, ...pageProps })
RestProps(p) == KeysOf(p) \ {"apolloClient", "apolloState"}

\* lines 15-18: the useMemo factory runs on the first render only, and calls
\* initApolloClient only when `apolloClient ||` finds no pre-built client
RunsInit(mounted, p) == ~mounted /\ p.apolloClient = NoClient

\* MemoClient with the factory reduced to `initApolloClient(apolloConfig, apolloState)`
MemoClient_IgnorePrebuilt(mounted, memo, p, made) ==
    IF mounted THEN memo ELSE made

\* lines 15-18: the client useMemo yields; `made` is what initApolloClient returned
MemoClient(mounted, memo, p, made) ==
    IF mounted THEN memo
    ELSE IF p.apolloClient # NoClient THEN p.apolloClient ELSE made

\* lines 14-24: one render of instance j of a component decorated under `config`,
\* with props p
WithApollo(j, p, config) ==
    /\ Quiet
    /\ j > 1 => inst[j - 1].mounted
    /\ IF RunsInit(inst[j].mounted, p)
       THEN \E cfg \in ResolveConfig(config) :
               LET c == MemoClient(inst[j].mounted, inst[j].memo, p,
                                   initApolloClient(cfg, p.apolloState).client)
               IN  /\ CallInit(cfg, p.apolloState)
                   /\ inst' = [inst EXCEPT ![j] = [mounted |-> TRUE, memo |-> c]]
                   /\ render' = [first |-> ~inst[j].mounted, props |-> p,
                                 client |-> c, forwarded |-> RestProps(p)]
       ELSE LET c == MemoClient(inst[j].mounted, inst[j].memo, p, NoClient)
            IN  /\ inst' = [inst EXCEPT ![j] = [mounted |-> TRUE, memo |-> c]]
                /\ render' = [first |-> ~inst[j].mounted, props |-> p,
                              client |-> c, forwarded |-> RestProps(p)]
                /\ UNCHANGED <<apolloClient, cacheOf, data, initLog>>
    /\ UNCHANGED <<runtime, inv>>

\* ------------------------------------- WithApollo.getServerSideProps (the hook)
\* Merge with the spread last: { apolloState, ...pageProps }
Merge_StateFirst(pp, snapshot) ==
    [k \in DOMAIN pp \cup {"apolloState"} |-> IF k \in DOMAIN pp THEN pp[k] ELSE snapshot]

\* lines 93-96: { ...pageProps, apolloState }
Merge(pp, snapshot) ==
    [k \in DOMAIN pp \cup {"apolloState"} |-> IF k = "apolloState" THEN snapshot ELSE pp[k]]

IdleInv ==
    [ pc |-> "idle", ssr |-> FALSE, hasHook |-> FALSE, client |-> NoClient, created |-> 0,
      finished |-> FALSE, wrappedCalls |-> 0, wrappedCtx |-> 0,
      ctxAtCall |-> NoClient, wrappedRet |-> NoProps, pageProps |-> NoProps,
      passes |-> 0, gdftCalls |-> 0, treeClient |-> NoClient, treeKeys |-> {},
      outcome |-> "none", logged |-> 0, rewinds |-> 0, extracts |-> 0,
      extractedFrom |-> NoClient, redirected |-> FALSE, result |-> NoProps ]

\* line 61: return pageProps
ReturnRedirect(v) == [v EXCEPT !.pc = "returned", !.redirected = TRUE, !.result = v.pageProps]

\* lines 90-96: extract the cache of the invocation's client and return
ExtractAndReturn(v, caches, contents) ==
    LET c == IF v.client = ExtClient THEN ExtCache ELSE caches[v.client]
    IN  [v EXCEPT !.pc = "returned", !.extracts = @ + 1, !.extractedFrom = v.client,
                  !.result = Merge(v.pageProps, Extract(contents[c]))]

\* AfterPass without the try/catch of lines 66 and 77: a failure rejects the hook
AfterPass_NoCatch(v, failed, how, caches, contents) ==
    IF failed
    THEN [v EXCEPT !.outcome = how, !.pc = "rejected"]
    ELSE ExtractAndReturn([v EXCEPT !.outcome = how, !.rewinds = @ + 1], caches, contents)

\* lines 77-87 and on: the catch clause (when the pass failed), Head.rewind(), then
\* lines 90-96
AfterPass(v, failed, how, caches, contents) ==
    ExtractAndReturn([v EXCEPT !.outcome = how,
                               !.logged = IF failed THEN @ + 1 ELSE @,
                               !.rewinds = @ + 1], caches, contents)

\* AfterProps without the `if (ssr)` of line 65
AfterProps_IgnoreSsr(v, caches, contents) ==
    IF runtime = "server"
    THEN IF v.finished
         THEN ReturnRedirect(v)
         ELSE [v EXCEPT !.pc = "import", !.passes = @ + 1]
    ELSE ExtractAndReturn(v, caches, contents)

\* AfterProps without the early return of lines 60-62
AfterProps_NoRedirectCheck(v, caches, contents) ==
    IF runtime = "server" /\ v.ssr
    THEN [v EXCEPT !.pc = "import", !.passes = @ + 1]
    ELSE ExtractAndReturn(v, caches, contents)

\* line 60: context.res && context.res.finished, for a context whose response is
\* absent ("none"), open or finished
Finished(res) == res = "finished"

\* lines 56-68, from the page properties to the next await or to the return; the hook
\* looks at the response once, now
AfterProps(v, caches, contents) ==
    IF runtime = "server"
    THEN IF v.finished
         THEN ReturnRedirect(v)
         ELSE IF v.ssr
              THEN [v EXCEPT !.pc = "import", !.passes = @ + 1]
              ELSE ExtractAndReturn(v, caches, contents)
    ELSE ExtractAndReturn(v, caches, contents)

\* Begin with the client attached to the context only after the wrapped hook is called
Begin_AttachLate(v, i, made, W) ==
    LET w == [v EXCEPT !.ssr = W.ssr, !.hasHook = W.hasHook,
                       !.client = made.client,
                       !.created = IF made.created THEN 1 ELSE 0]
    IN  IF W.hasHook
        THEN [w EXCEPT !.pc = "wrapped", !.wrappedCalls = @ + 1, !.wrappedCtx = i,
                       !.ctxAtCall = NoClient]
        ELSE w

\* lines 40-54: the client is made and attached to the context, then the wrapped
\* hook (if any) is called with the context
Begin(v, i, made, W) ==
    LET c == made.client
        w == [v EXCEPT !.ssr = W.ssr, !.hasHook = W.hasHook,
                       !.client = c, !.created = IF made.created THEN 1 ELSE 0]
    IN  IF W.hasHook
        THEN [w EXCEPT !.pc = "wrapped", !.wrappedCalls = @ + 1, !.wrappedCtx = i,
                       !.ctxAtCall = c]
        ELSE w

\* a call of the hook of the decorated component W; without a wrapped hook it runs
\* on to line 60 at once and finds the context's response to be `res`
HookStart(i, res, W) ==
    /\ Quiet
    /\ W.defined
    /\ inv[i].pc = "idle"
    /\ i > 1 => inv[i - 1].pc # "idle"
    /\ \E cfg \in ResolveConfig(W.config) :
          LET b == Begin(inv[i], i, initApolloClient(cfg, Null), W)
          IN  /\ CallInit(cfg, Null)
              /\ inv' = [inv EXCEPT ![i] =
                            IF b.pc = "wrapped"
                            THEN b
                            ELSE AfterProps([b EXCEPT !.finished = Finished(res)],
                                            cacheOf', data')]
    /\ UNCHANGED <<runtime, inst, render>>

\* line 53 resolves: the wrapped hook returns pp, and leaves the context's response
\* absent, open or finished (a redirect)
WrappedReturn(i, pp, res) ==
    /\ Quiet
    /\ inv[i].pc = "wrapped"
    /\ LET v == [inv[i] EXCEPT !.pageProps = pp, !.wrappedRet = pp,
                               !.finished = Finished(res)]
       IN  inv' = [inv EXCEPT ![i] = AfterProps(v, cacheOf, data)]
    /\ UNCHANGED <<runtime, apolloClient, cacheOf, data, initLog, inst, render>>

\* line 53 rejects: the hook's promise rejects with it
WrappedThrow(i) ==
    /\ Quiet
    /\ inv[i].pc = "wrapped"
    /\ inv' = [inv EXCEPT ![i] = [@ EXCEPT !.pc = "rejected"]]
    /\ UNCHANGED <<runtime, apolloClient, cacheOf, data, initLog, inst, render>>

\* lines 68-76: the import resolved; getDataFromTree is called with the tree
StartTree(v) ==
    [v EXCEPT !.pc = "gdft", !.gdftCalls = @ + 1, !.treeClient = v.client,
              !.treeKeys = DOMAIN v.pageProps \cup {"apolloClient"}]

ImportDone(i) ==
    /\ Quiet
    /\ inv[i].pc = "import"
    /\ inv' = [inv EXCEPT ![i] = StartTree(inv[i])]
    /\ UNCHANGED <<runtime, apolloClient, cacheOf, data, initLog, inst, render>>

\* line 68 rejects: caught at line 77
ImportFail(i) ==
    /\ Quiet
    /\ inv[i].pc = "import"
    /\ inv' = [inv EXCEPT ![i] = AfterPass(inv[i], TRUE, "importFailed", cacheOf, data)]
    /\ UNCHANGED <<runtime, apolloClient, cacheOf, data, initLog, inst, render>>

\* during getDataFromTree a query result is written to the cache of the tree's client
GdftWrite(i, e) ==
    /\ Quiet
    /\ inv[i].pc = "gdft"
    /\ e \notin data[CacheOf(inv[i].treeClient)]
    /\ data' = [data EXCEPT ![CacheOf(inv[i].treeClient)] = @ \cup {e}]
    /\ UNCHANGED <<runtime, apolloClient, cacheOf, initLog, inst, render, inv>>

\* line 69 resolves
GdftDone(i) ==
    /\ Quiet
    /\ inv[i].pc = "gdft"
    /\ inv' = [inv EXCEPT ![i] = AfterPass(inv[i], FALSE, "ok", cacheOf, data)]
    /\ UNCHANGED <<runtime, apolloClient, cacheOf, data, initLog, inst, render>>

\* line 69 rejects: caught at line 77
GdftFail(i) ==
    /\ Quiet
    /\ inv[i].pc = "gdft"
    /\ inv' = [inv EXCEPT ![i] = AfterPass(inv[i], TRUE, "gdftFailed", cacheOf, data)]
    /\ UNCHANGED <<runtime, apolloClient, cacheOf, data, initLog, inst, render>>

\* ------------------------------------------------------------ specification
Init ==
    /\ runtime \in {"server", "browser"}
    /\ apolloClient = NoClient
    /\ cacheOf = <<>>
    /\ data = (SharedCache :> {}) @@ (ExtCache :> {})
    /\ initLog = <<>>
    /\ inst = [j \in 1..MaxInst |-> [mounted |-> FALSE, memo |-> NoClient]]
    /\ render = NoRender
    /\ inv = [i \in 1..MaxInv |-> IdleInv]

\* React commits the output of the render.  Only the render's output goes away: the
\* handle, the clients, the caches and the useMemo slots stay.
Commit ==
    /\ render # NoRender
    /\ render' = NoRender
    /\ UNCHANGED <<runtime, apolloClient, cacheOf, data, initLog, inst, inv>>

\* the continuation awaiting the hook's promise takes its outcome
Settled(i) ==
    /\ inv[i].pc \in {"returned", "rejected"}
    /\ inv' = [inv EXCEPT ![i] = [IdleInv EXCEPT !.pc = "done"]]
    /\ UNCHANGED <<runtime, apolloClient, cacheOf, data, initLog, inst, render>>

Next ==
    \/ \E j \in 1..MaxInst : \E p \in PropsSet, config \in Configs : WithApollo(j, p, config)
    \/ \E i \in 1..MaxInv : \E r \in Responses, W \in Decorated : HookStart(i, r, W)
    \/ \E i \in 1..MaxInv : \E pp \in PagePropsSet, r \in Responses :
          WrappedReturn(i, pp, r)
    \/ \E i \in 1..MaxInv : WrappedThrow(i)
    \/ \E i \in 1..MaxInv : ImportDone(i)
    \/ \E i \in 1..MaxInv : ImportFail(i)
    \/ \E i \in 1..MaxInv : \E e \in Fetched : GdftWrite(i, e)
    \/ \E i \in 1..MaxInv : GdftDone(i)
    \/ \E i \in 1..MaxInv : GdftFail(i)
    \/ Commit
    \/ \E i \in 1..MaxInv : Settled(i)

Spec == Init /\ [][Next]_vars

\* ------------------------------------------------------------------ claims
Started(i) == inv[i].pc \notin {"idle", "done"}
Returned(i) == inv[i].pc = "returned"
Ended(i) == inv[i].pc \in {"returned", "rejected"}

\* r is pp with the key apolloState set to the snapshot s
IsMerged(r, pp, s) ==
    /\ DOMAIN r = DOMAIN pp \cup {"apolloState"}
    /\ r["apolloState"] = s
    /\ \A k \in DOMAIN pp \ {"apolloState"} : r[k] = pp[k]

\* the contents, now, of the cache of the client of invocation i
CacheNow(i) == data[CacheOf(inv[i].client)]

\* the response was finished when the hook looked at it (line 60)
Redirect(i) == runtime = "server" /\ inv[i].finished

\* C1: on a server every call of initApolloClient creates a new client, no two calls
\* return the same client, and the module-level handle stays null.
C1_ServerAlwaysFresh ==
    runtime = "server" =>
        /\ apolloClient = NoClient
        /\ \A k \in 1..Len(initLog) : initLog[k].created
        /\ \A k, l \in 1..Len(initLog) : k # l => initLog[k].client # initLog[l].client
        /\ Len(cacheOf) = Len(initLog)

\* C1 witness: a server on which initApolloClient has been called twice.
C1_Witness == runtime = "server" /\ Len(initLog) >= 2

\* C2: in a browser a client is created at most once: the first call of
\* initApolloClient creates it and stores it in the handle, every later call returns
\* it, and the handle never changes once it is set.
C2_BrowserCreatesOnce ==
    /\ [](runtime = "browser" =>
            /\ Len(cacheOf) <= 1
            /\ Len(initLog) = 0 => apolloClient = NoClient /\ Len(cacheOf) = 0
            /\ \A k \in 1..Len(initLog) :
                  /\ initLog[k].client = apolloClient
                  /\ initLog[k].client # NoClient
                  /\ initLog[k].created <=> k = 1)
    /\ [][runtime = "browser" /\ apolloClient # NoClient => apolloClient' = apolloClient]_vars

\* C2 witness: a browser in which initApolloClient has been called twice.
C2_Witness == runtime = "browser" /\ Len(initLog) >= 2 /\ apolloClient # NoClient

\* C3: when the data-fetch pass fails (the import or getDataFromTree), the failure is
\* logged and the hook still rewinds Head, extracts the cache of its client and
\* returns the page properties merged with apolloState, as after a pass that succeeds.
C3_PassFailureContinues ==
    \A i \in 1..MaxInv :
        inv[i].outcome \in {"importFailed", "gdftFailed", "ok"} =>
            /\ inv[i].pc = "returned"
            /\ inv[i].logged = IF inv[i].outcome = "ok" THEN 0 ELSE 1
            /\ inv[i].rewinds = 1
            /\ inv[i].extracts = 1
            /\ inv[i].extractedFrom = inv[i].client
            /\ IsMerged(inv[i].result, inv[i].pageProps, CacheNow(i))

\* C3 witness: getDataFromTree failed after a query result reached the cache, and the
\* hook returned it.
C3_Witness ==
    \E i \in 1..MaxInv :
        /\ inv[i].outcome = "gdftFailed"
        /\ inv[i].pc = "returned"
        /\ "a" \in inv[i].result["apolloState"]

\* C4 as stated: every value the hook returns is the page properties merged with the
\* extract of the client's cache.
C4_Original ==
    \A i \in 1..MaxInv : Returned(i) => IsMerged(inv[i].result, inv[i].pageProps, CacheNow(i))

\* C4 amended: every value the hook returns is the page properties merged with the
\* extract of the cache of the client initApolloClient returned to the invocation,
\* except when on the server the response is finished: then it is the page properties
\* alone.
C4_MergedUnlessRedirect ==
    \A i \in 1..MaxInv :
        Returned(i) =>
            IF Redirect(i)
            THEN inv[i].result = inv[i].pageProps
            ELSE /\ IsMerged(inv[i].result, inv[i].pageProps, CacheNow(i))
                 /\ inv[i].extractedFrom = inv[i].client

\* C4 witness: the hook returned page properties that had an apolloState key of their
\* own, with a cache that holds a query result.
C4_Witness ==
    \E i \in 1..MaxInv :
        /\ Returned(i)
        /\ ~Redirect(i)
        /\ "apolloState" \in DOMAIN inv[i].pageProps
        /\ inv[i].result["apolloState"] = {"a"}

\* the conditions under which C5 says the pass runs
PassDue(i) ==
    /\ inv[i].ssr
    /\ runtime = "server"
    /\ inv[i].pc # "rejected"
    /\ ~inv[i].finished

\* C5 as stated: getDataFromTree is started exactly once when ssr is true, the
\* runtime is a server, the wrapped hook returned normally and the response is not
\* finished, and zero times otherwise.
C5_Original ==
    /\ \A i \in 1..MaxInv : inv[i].gdftCalls <= 1
    /\ \A i \in 1..MaxInv : Ended(i) => inv[i].gdftCalls = IF PassDue(i) THEN 1 ELSE 0

\* C5 amended: under those conditions the pass is entered exactly once (the import of
\* @apollo/react-ssr is begun), and getDataFromTree is started exactly once if that
\* import succeeds and not at all if it fails; in every other case the pass is not
\* entered and getDataFromTree is not started; never more than once.
C5_PassOncePerRequest ==
    /\ \A i \in 1..MaxInv : inv[i].gdftCalls <= 1 /\ inv[i].passes <= 1
    /\ \A i \in 1..MaxInv :
          Ended(i) =>
              /\ inv[i].passes = IF PassDue(i) THEN 1 ELSE 0
              /\ inv[i].gdftCalls =
                    IF PassDue(i) /\ inv[i].outcome # "importFailed" THEN 1 ELSE 0

\* C5 witness: an invocation that ended after a pass in which getDataFromTree ran.
C5_Witness ==
    \E i \in 1..MaxInv : Ended(i) /\ PassDue(i) /\ inv[i].gdftCalls = 1 /\ inv[i].outcome = "ok"

\* of every decorated component: the hook exists iff ssr is true, which it is when
\* the options are omitted, or the page has a hook
DecoratorRule ==
    \A W \in Decorated : W.defined <=> (W.opts \in {"omitted", "true"} \/ W.hasHook)

\* C6: the hook exists if and only if ssr is true (the default) or the page has its
\* own getServerSideProps; the wrapped hook, when there is one, is called exactly once
\* per invocation, with the invocation's context, and what it returns becomes the
\* page properties.
C6_HookConditional ==
    /\ DecoratorRule
    /\ \A i \in 1..MaxInv :
          Started(i) =>
              /\ inv[i].ssr \/ inv[i].hasHook
              /\ inv[i].wrappedCalls = IF inv[i].hasHook THEN 1 ELSE 0
              /\ inv[i].hasHook => inv[i].wrappedCtx = i
              /\ inv[i].pc \notin {"wrapped", "rejected"} =>
                    inv[i].pageProps = IF inv[i].hasHook THEN inv[i].wrappedRet ELSE NoProps
    /\ \A i \in 1..MaxInv :
          Returned(i) =>
              \A k \in DOMAIN inv[i].wrappedRet \ {"apolloState"} :
                  k \in DOMAIN inv[i].result /\ inv[i].result[k] = inv[i].wrappedRet[k]

\* C6 witness: with ssr false the hook exists because the page has one, and an
\* invocation of it returned what the wrapped hook returned.
C6_Witness ==
    \E i \in 1..MaxInv :
        /\ Returned(i)
        /\ ~inv[i].ssr
        /\ inv[i].hasHook
        /\ inv[i].wrappedCalls = 1
        /\ "title" \in DOMAIN inv[i].result

\* a render in a browser that was given a snapshot object and no pre-built client
SnapshotRender ==
    /\ runtime = "browser"
    /\ render # NoRender
    /\ render.props.apolloClient = NoClient
    /\ render.props.apolloState.tag = "object"

\* C7 as stated: in a browser, a render with apolloState = S and no pre-built client
\* hands ApolloProvider a client whose cache extracts to S.
C7_Original ==
    SnapshotRender => Extract(data[CacheOf(render.client)]) = render.props.apolloState.data

\* C7 amended: in a browser, the first render of an instance with apolloState = S and
\* no pre-built client, made while the module-level handle is still null and under a
\* configuration without a cache key of its own, hands ApolloProvider a client whose
\* cache extracts to S; a first render made when the handle is already set hands over
\* the handle's client, created earlier.
C7_FirstSnapshotRestored ==
    SnapshotRender /\ render.first =>
        LET call == initLog[Len(initLog)]
        IN  /\ call.client = render.client
            /\ call.created /\ CacheOf(render.client) # SharedCache =>
                  Extract(data[CacheOf(render.client)]) = render.props.apolloState.data
            /\ ~call.created => render.client = apolloClient /\ Len(initLog) >= 2

\* C7 witness: the first call of initApolloClient in a browser came from a render with
\* a snapshot, and the client's own cache holds that snapshot.
C7_Witness ==
    /\ SnapshotRender
    /\ render.first
    /\ Len(initLog) = 1
    /\ CacheOf(render.client) # SharedCache
    /\ data[CacheOf(render.client)] = {"b"}

Prebuilt(r) == r.props.apolloClient # NoClient

\* a step that is a render of WithApollo
Renders == render = NoRender /\ render' # NoRender

NoInitCall ==
    /\ initLog' = initLog
    /\ apolloClient' = apolloClient
    /\ cacheOf' = cacheOf
    /\ data' = data

ForwardsRest ==
    /\ render'.forwarded = render'.props.rest
    /\ render'.forwarded \cap {"apolloClient", "apolloState"} = {}

\* C8 as stated: a render given a pre-built client provides that client and calls
\* nothing; initApolloClient is called only when no pre-built client is given; the
\* two inputs are not forwarded.
C8_Original ==
    [][Renders =>
          /\ Prebuilt(render') =>
                render'.client = render'.props.apolloClient /\ NoInitCall
          /\ ~NoInitCall => ~Prebuilt(render')
          /\ ForwardsRest]_vars

\* C8 amended: the first render of an instance given a pre-built client provides that
\* client, calls nothing and leaves the handle unchanged; the first render given none
\* calls initApolloClient once and provides what it returns; every later render of
\* the instance provides the client of its first render, whatever it is given, and
\* calls nothing; apolloClient and apolloState are never forwarded.
C8_PrebuiltAtFirstRender ==
    [][Renders =>
          /\ render'.first /\ Prebuilt(render') =>
                render'.client = render'.props.apolloClient /\ NoInitCall
          /\ render'.first /\ ~Prebuilt(render') =>
                /\ Len(initLog') = Len(initLog) + 1
                /\ render'.client = initLog'[Len(initLog')].client
          /\ ~render'.first =>
                /\ NoInitCall
                /\ inst' = inst
                /\ \E j \in 1..MaxInst : inst[j].mounted /\ inst[j].memo = render'.client
          /\ ForwardsRest]_vars

\* C8 witness: a first render given a pre-built client and a snapshot.
C8_Witness ==
    /\ render # NoRender
    /\ render.first
    /\ render.props.apolloClient = ExtClient
    /\ render.props.apolloState = Obj({"b"})
    /\ render.client = ExtClient

\* one client throughout invocation i: in the context when the wrapped hook is
\* called, in the tree given to getDataFromTree, and the one whose cache is extracted,
\* after the pass
SameClient(i) ==
    /\ inv[i].client # NoClient
    /\ inv[i].hasHook => inv[i].ctxAtCall = inv[i].client
    /\ inv[i].gdftCalls > 0 =>
          inv[i].treeClient = inv[i].client /\ "apolloClient" \in inv[i].treeKeys
    /\ inv[i].extracts > 0 =>
          /\ inv[i].extractedFrom = inv[i].client
          /\ inv[i].passes > 0 => inv[i].outcome # "none"

\* C9 as stated: an invocation creates exactly one client and uses it throughout.
C9_Original ==
    \A i \in 1..MaxInv : Started(i) => inv[i].created = 1 /\ SameClient(i)

\* C9 amended: an invocation obtains exactly one client from initApolloClient and uses
\* it throughout; on a server that client is created for the invocation, in a browser
\* it is created only if the handle is still null and is otherwise the handle's.
C9_OneClientPerInvocation ==
    \A i \in 1..MaxInv :
        Started(i) =>
            /\ SameClient(i)
            /\ inv[i].created <= 1
            /\ runtime = "server" => inv[i].created = 1 /\ apolloClient = NoClient
            /\ runtime = "browser" => inv[i].client = apolloClient
            /\ \E k \in 1..Len(initLog) :
                  /\ initLog[k].client = inv[i].client
                  /\ initLog[k].created <=> inv[i].created = 1

\* C9 witness: a pass ran with the invocation's client in the tree and its cache was
\* extracted afterwards, with a wrapped hook that saw the client in the context.
C9_Witness ==
    \E i \in 1..MaxInv :
        /\ Returned(i)
        /\ inv[i].hasHook
        /\ inv[i].ctxAtCall = inv[i].client
        /\ inv[i].treeClient = inv[i].client
        /\ inv[i].outcome = "ok"
        /\ inv[i].extracts = 1

\* C10: on the server, when the response is finished after the wrapped hook returned,
\* the hook returns the page properties unchanged and does no pass, no Head.rewind and
\* no extraction, whatever ssr is.
C10_RedirectStops ==
    \A i \in 1..MaxInv :
        Started(i) /\ Redirect(i) =>
            /\ inv[i].pc = "returned"
            /\ inv[i].result = inv[i].wrappedRet
            /\ inv[i].passes = 0
            /\ inv[i].gdftCalls = 0
            /\ inv[i].rewinds = 0
            /\ inv[i].logged = 0
            /\ inv[i].extracts = 0

\* C10 witness: a redirect under ssr true.
C10_Witness ==
    \E i \in 1..MaxInv : Returned(i) /\ Redirect(i) /\ inv[i].ssr /\ inv[i].hasHook

====
